---- MODULE Spec2Model ----
(***************************************************************************)
(* Inline anomaly-detection filter for a telemetry stream.                 *)
(*                                                                         *)
(*   - the MQTT bridge (fastapi/mqttclient.py): on_message, mirror_status, *)
(*     republish_data, build_network_metadata, call_fastapi_inference;     *)
(*   - the scoring service (fastapi/app.py): flow_state,                   *)
(*     get_network_features, preprocess_input, analyze_vitals;             *)
(*   - the offline helper (fastapi/inference_pipeline.py):                 *)
(*     predict_from_raw_features.                                          *)
(*                                                                         *)
(* Time is counted in ticks; EpsTicks ticks make up the 0.00001 s floor of *)
(* the service, so that gaps below the floor exist in the model.           *)
(* A payload is a sequence of bytes, abstracted to tokens: one token per   *)
(* JSON member, per run of whitespace, per undecodable byte.               *)
(***************************************************************************)
EXTENDS Integers, Sequences, FiniteSets, TLC

\* ------------------------------------------------------------------ bounds

\* ticks per 0.00001 s
EpsTicks == 2
\* messages the bridge handles in one run
MaxMsgs == 2

TicksPerSec == 100000 * EpsTicks

\* the pauses between two bus messages: none, below the floor, a second
Deltas == {0, 1, TicksPerSec}

\* ------------------------------------------------------------- sequences

Last(s) == s[Len(s)]

Range(s) == {s[i] : i \in DOMAIN s}

SeqsUpTo(S, n) == UNION {[1..k -> S] : k \in 0..n}

RECURSIVE FilterSeq(_, _)
\* the elements of s that are not in the set drop, in order
FilterSeq(s, drop) ==
  IF s = <<>> THEN <<>>
  ELSE IF Head(s) \in drop THEN FilterSeq(Tail(s), drop)
       ELSE <<Head(s)>> \o FilterSeq(Tail(s), drop)

\* ------------------------------------------------------- JSON and payloads

Str(s) == [kind |-> "str", s |-> s]
Obj(o) == [kind |-> "obj", o |-> o]

\* one JSON member "k": v as it stands in a payload
Field(k, v) == [t |-> "field", k |-> k, v |-> v]
\* a run of whitespace
WS == [t |-> "ws", k |-> "", v |-> Str("")]
\* bytes that are no JSON
JUNK == [t |-> "junk", k |-> "", v |-> Str("")]
\* a byte that is not valid UTF-8 (decode(..., "ignore") drops it)
INVAL == [t |-> "inval", k |-> "", v |-> Str("")]
\* a JSON value that is no object (a list, a number)
NONOBJ == [t |-> "nonobj", k |-> "", v |-> Str("")]

DeviceIds == {"d1", "d2"}

Dev(d) == Field("device_id", Str(d))
Spo2 == Field("spo2", Str("97"))

\* the inbound payloads: objects as json.dumps writes them and otherwise,
\* without a device id, with a repeated key, with a network_metadata member
\* of their own, with a byte that is no UTF-8; and what is no JSON object
Payloads ==
  {<<Dev("d1")>>, <<Dev("d2"), WS, Spo2>>, <<Dev("d1"), Spo2>>, <<Spo2>>,
   <<Dev("d1"), Dev("d2")>>, <<Dev("d2"), INVAL>>,
   <<Dev("d1"), WS, Field("network_metadata", Str("x"))>>,
   <<>>, <<JUNK>>, <<Dev("d1"), JUNK>>, <<NONOBJ>>}

\* bytes.decode("utf-8", "ignore")
decode(payload) == FilterSeq(payload, {INVAL})

Failure == [ok |-> FALSE, isdict |-> FALSE, items |-> <<>>]

RECURSIVE DictOf(_)
\* the dict of a text of members: a repeated key keeps its first place and
\* takes its last value
DictOf(text) ==
  IF text = <<>> THEN <<>>
  ELSE LET rest == DictOf(SubSeq(text, 1, Len(text) - 1))
           f == Last(text)
       IN IF \E i \in DOMAIN rest : rest[i].k = f.k
          THEN [i \in DOMAIN rest |->
                  IF rest[i].k = f.k THEN [k |-> f.k, v |-> f.v] ELSE rest[i]]
          ELSE Append(rest, [k |-> f.k, v |-> f.v])

\* a parser that stops at the first byte it cannot read and keeps the rest
json_loads_lenient(text) ==
  LET body == FilterSeq(text, {WS, JUNK, NONOBJ})
  IN [ok |-> TRUE, isdict |-> TRUE, items |-> DictOf(body)]

\* json.loads: an exception, a non-object value, or a dict (ordered items)
json_loads(text) ==
  LET body == FilterSeq(text, {WS})
  IN IF \E i \in DOMAIN body : body[i].t = "junk" THEN Failure
     ELSE IF \E i \in DOMAIN body : body[i].t = "nonobj"
          THEN IF Len(body) = 1
               THEN [ok |-> TRUE, isdict |-> FALSE, items |-> <<>>]
               ELSE Failure
          ELSE [ok |-> TRUE, isdict |-> TRUE, items |-> DictOf(body)]

RECURSIVE json_dumps(_)
\* json.dumps of a dict: the members in dict order, ", " between them
json_dumps(items) ==
  IF items = <<>> THEN <<>>
  ELSE IF Len(items) = 1 THEN <<Field(items[1].k, items[1].v)>>
       ELSE <<Field(items[1].k, items[1].v), WS>> \o json_dumps(Tail(items))

HasKey(items, k) == \E i \in DOMAIN items : items[i].k = k

\* dict.get(k, default)
DictGet(items, k, default) ==
  IF HasKey(items, k)
  THEN (CHOOSE it \in Range(items) : it.k = k).v
  ELSE default

\* d[k] = v
DictSet(items, k, v) ==
  IF HasKey(items, k)
  THEN [i \in DOMAIN items |-> IF items[i].k = k THEN [k |-> k, v |-> v] ELSE items[i]]
  ELSE Append(items, [k |-> k, v |-> v])

\* ------------------------------------------------------------ the bridge
\* fastapi/mqttclient.py

\* argparse defaults
host == "127.0.0.1"
gateway_id == "pi-01"
gateway_ip == "192.168.1.1"
device_ip == "192.168.1.100"
ingress_prefix == <<"edge">>
unity_prefix == <<"plx", "reading">>
qos == 1

\* a topic is the sequence of its levels; the subscription is
\* <ingress_prefix>/<gateway_id>/in/#
topic_ingress == ingress_prefix \o <<gateway_id, "in">>

Topics ==
  {topic_ingress \o <<d>> : d \in DeviceIds}
    \cup {topic_ingress \o <<d, "status">> : d \in DeviceIds}
    \cup {topic_ingress \o <<"status">>}

\* str.endswith("/status")
endswith_status(topic) == Len(topic) >= 2 /\ Last(topic) = "status"

VARIABLES
  device_stats,   \* device id -> first_seen, last_seen, pkt_count, byte_count
  now,            \* the bridge's clock, time.time()
  handled,        \* messages handled so far
  running,        \* loop_forever has not been left by an exception
  msg,            \* the message on_message was last called with
  reply,          \* what requests.post met for that message
  posts,          \* the bodies POSTed to api_url for that message
  published,      \* the cli.publish calls made for that message
  outcome,        \* how its handling ended
  counted         \* device id -> the data messages its id came with so far

bridgeVars ==
  <<device_stats, now, handled, running, msg, reply, posts, published, outcome,
    counted>>

NoMsg == [topic |-> <<>>, payload |-> <<>>]

\* what requests.post(api_url, json=data, timeout=2.0) can meet: an exception
\* (timeout, connection error), or a response with a status and a body
NoReply == [exc |-> "unused", status_code |-> 0, body |-> "", prediction |-> ""]

Replies ==
  {[exc |-> e, status_code |-> 0, body |-> "", prediction |-> ""] :
      e \in {"timeout", "connection"}}
    \cup {[exc |-> "none", status_code |-> c, body |-> b, prediction |-> ""] :
            c \in {200, 503}, b \in {"undecodable", "null", "list"}}
    \cup {[exc |-> "none", status_code |-> c, body |-> "dict", prediction |-> p] :
            c \in {200, 503}, p \in {"NORMAL", "ATTACK", "Normal", "<absent>"}}

None == [kind |-> "None", prediction |-> ""]

\* resp.json()
resp_json(r) ==
  IF r.body = "undecodable" THEN [kind |-> "raise", prediction |-> ""]
  ELSE IF r.body = "null" THEN None
  ELSE IF r.body = "list" THEN [kind |-> "list", prediction |-> ""]
  ELSE [kind |-> "dict", prediction |-> r.prediction]

\* stats that start anew with each message
update_stats_restarting(stats, device_id, current_time, payload_size) ==
  [first_seen |-> current_time, last_seen |-> current_time,
   pkt_count |-> 1, byte_count |-> payload_size]

\* the stats entry of a device after this message (lines 50-64)
update_stats(stats, device_id, current_time, payload_size) ==
  LET s0 == IF device_id \in DOMAIN stats
            THEN stats[device_id]
            ELSE [first_seen |-> current_time, last_seen |-> current_time,
                  pkt_count |-> 0, byte_count |-> 0]
  IN [s0 EXCEPT !.last_seen = current_time,
                !.pkt_count = @ + 1,
                !.byte_count = @ + payload_size]

\* the metadata dict built from a device's stats entry (lines 69-85)
build_network_metadata(s, mqtt_topic, payload_size, current_time) ==
  [src_ip |-> device_ip,
   dst_ip |-> gateway_ip,
   src_port |-> 1883,
   dst_port |-> 8000,
   pkt_size |-> payload_size,
   mqtt_topic |-> mqtt_topic,
   mqtt_broker |-> host,
   gateway_id |-> gateway_id,
   flow_pkt_count |-> s.pkt_count,
   flow_byte_count |-> s.byte_count,
   flow_duration |-> current_time - s.first_seen,
   timestamp |-> current_time]

\* the call without its check of the status code
call_fastapi_inference_any_status(data, network_metadata, r) ==
  LET sent == DictSet(data, "network_metadata", Obj(network_metadata))
      ai == IF r.exc # "none" THEN None
            ELSE IF resp_json(r).kind = "raise" THEN None
            ELSE resp_json(r)
  IN [data |-> sent, posts |-> <<sent>>, ai |-> ai]

\* call_fastapi_inference: data gets the metadata (in place, so the caller's
\* dict has it too), one POST is made, and the result is None on an
\* exception, a status other than 200 or a body that does not decode
call_fastapi_inference(data, network_metadata, r) ==
  LET sent == DictSet(data, "network_metadata", Obj(network_metadata))
      ai == IF r.exc # "none" THEN None
            ELSE IF r.status_code # 200 THEN None
            ELSE IF resp_json(r).kind = "raise" THEN None
            ELSE resp_json(r)
  IN [data |-> sent, posts |-> <<sent>>, ai |-> ai]

\* a mirror that decodes the status payload and writes it anew, as the data
\* path does
mirror_status_reencoded(src_topic, payload) ==
  LET parts == src_topic
      device_id == IF Len(parts) >= 5 THEN parts[Len(parts) - 1] ELSE "unknown"
      out_topic == unity_prefix \o <<device_id, "status">>
  IN <<[topic |-> out_topic,
        payload |-> json_dumps(json_loads(decode(payload)).items),
        qos |-> 1, retain |-> TRUE]>>

\* mirror_status: edge/<gw>/in/<device>/status -> plx/reading/<device>/status
mirror_status(src_topic, payload) ==
  LET parts == src_topic
      device_id == IF Len(parts) >= 5 THEN parts[Len(parts) - 1] ELSE "unknown"
      out_topic == unity_prefix \o <<device_id, "status">>
  IN <<[topic |-> out_topic, payload |-> payload, qos |-> 1, retain |-> TRUE]>>

\* a default that lets a response without a label pass
get_prediction_default_normal(ai) ==
  IF ai.prediction = "<absent>" THEN "NORMAL" ELSE ai.prediction

\* ai_response.get("prediction", "UNKNOWN")
get_prediction(ai) == IF ai.prediction = "<absent>" THEN "UNKNOWN" ELSE ai.prediction

\* republish_data: what handling a data message does to the stats, the POSTs
\* made, the publishes made, and how it ends
republish_data(stats, mqtt_topic, payload, current_time, r) ==
  LET parsed == json_loads(decode(payload))
      quiet == [stats |-> stats, posts |-> <<>>, published |-> <<>>,
                reply |-> NoReply]
  IN IF ~parsed.ok THEN quiet @@ [outcome |-> "dropped"]
     ELSE IF ~parsed.isdict THEN quiet @@ [outcome |-> "raised"]
     ELSE
       LET data == parsed.items
           device_id == DictGet(data, "device_id", Str("unknown")).s
           payload_size == Len(payload)
           s1 == update_stats(stats, device_id, current_time, payload_size)
           stats1 == [d \in DOMAIN stats \cup {device_id} |->
                        IF d = device_id THEN s1 ELSE stats[d]]
           network_metadata ==
             build_network_metadata(s1, mqtt_topic, payload_size, current_time)
           call == call_fastapi_inference(data, network_metadata, r)
           called == [stats |-> stats1, posts |-> call.posts, published |-> <<>>,
                      reply |-> r]
       IN IF call.ai = None THEN called @@ [outcome |-> "blocked"]
          ELSE IF call.ai.kind # "dict" THEN called @@ [outcome |-> "raised"]
          ELSE IF get_prediction(call.ai) # "NORMAL"
               THEN called @@ [outcome |-> "blocked"]
          ELSE [called EXCEPT !.published =
                  <<[topic |-> unity_prefix \o <<device_id>>,
                     payload |-> json_dumps(call.data),
                     qos |-> qos, retain |-> FALSE]>>]
                 @@ [outcome |-> "forwarded"]

\* ---------------------------------------------------- the scoring service
\* fastapi/app.py

\* packet size the service assumes for every request, in bytes
pkt_size == 300

\* the 5.0 s after which get_network_features means to restart a flow
IdleTimeout == 5 * TicksPerSec

\* the floor 0.00001 s of a duration
Epsilon == EpsTicks

Max(a, b) == IF a >= b THEN a ELSE b

\* the quotient pkts / (per ticks), kept as its two terms
Quot(pkts, per) == [pkts |-> pkts, per |-> per]

\* 0.0 packets per second
ZeroRate == Quot(0, Epsilon)

\* a key that leaves the source address out
flow_key_device_only(src_ip, device_id) == <<"", device_id>>

\* flow_key = (src_ip, payload.device_id)
flow_key_of(src_ip, device_id) == <<src_ip, device_id>>

\* flow_state[flow_key] of the defaultdict: the entry, made at created_at if
\* the key has none
flow_state_get(fs, flow_key, created_at) ==
  IF flow_key \in DOMAIN fs THEN fs[flow_key]
  ELSE [start_time |-> created_at, last_time |-> created_at,
        byte_count |-> 0, pkt_count |-> 0]

\* the update of the entry (lines 213-215), each key counted on its own
update_flow(stats, current_time) ==
  [stats EXCEPT !.last_time = current_time,
                !.byte_count = @ + pkt_size,
                !.pkt_count = @ + 1]

\* the test of line 225, made on the entry as it is after the update
idle_too_long(stats, current_time) ==
  (current_time - stats.last_time) > IdleTimeout

\* get_network_features: the new flow_state and the raw feature dict.
\* client is request.client; created_at is the time.time() of the
\* defaultdict's factory, read after current_time
get_network_features(fs, client, device_id, current_time, created_at) ==
  LET src_ip == client.host
      flow_key == flow_key_of(src_ip, device_id)
      stats == update_flow(flow_state_get(fs, flow_key, created_at), current_time)
      reset == idle_too_long(stats, current_time)
      duration == IF reset THEN Epsilon
                  ELSE Max(stats.last_time - stats.start_time, Epsilon)
      rate == IF reset THEN ZeroRate ELSE Quot(stats.pkt_count, duration)
      entry == IF reset
               THEN [start_time |-> current_time, last_time |-> current_time,
                     byte_count |-> pkt_size, pkt_count |-> 1]
               ELSE stats
  IN [flow_state |-> [k \in DOMAIN fs \cup {flow_key} |->
                        IF k = flow_key THEN entry ELSE fs[k]],
      raw_features |->
        [SrcAddr |-> src_ip,
         DstAddr |-> "127.0.0.1",
         Sport |-> ToString(client.port),
         Dport |-> ToString(8000),
         TotPkts |-> stats.pkt_count,
         TotBytes |-> stats.byte_count,
         Dur |-> duration,
         Rate |-> rate,
         SrcBytes |-> stats.byte_count,
         DstBytes |-> 0]]

\* the keys of raw_features, in the order the dict is written (lines 238-249)
RawNames ==
  <<"SrcAddr", "DstAddr", "Sport", "Dport", "TotPkts", "TotBytes", "Dur",
    "Rate", "SrcBytes", "DstBytes">>

\* the columns whose values are strings (dtype object)
ObjectCols == {"SrcAddr", "DstAddr", "Sport", "Dport", "Proto"}

\* ---- the fitted preprocessor and the model's feature names
\* An artifact is what joblib.load and booster.feature_names give: the columns
\* the preprocessor was fitted on (fit_transform, lines 60-98), whether the
\* scaler kept them as feature_names_in_ (newer sklearn), the columns the
\* model expects, and whether the booster names them.

categorical_cols(art) == FilterSeq(art.fit_cols, Range(art.fit_cols) \ ObjectCols)

numerical_cols(art) == FilterSeq(art.fit_cols, ObjectCols)

\* scaler.feature_names_in_: the fitted frame is the categorical columns,
\* then the imputed numerical ones (lines 92-96)
scaler_feature_names_in(art) == categorical_cols(art) \o numerical_cols(art)

NoNames == <<"<None>">>

\* MODEL_FEATURE_NAMES = booster.feature_names
MODEL_FEATURE_NAMES(art) == IF art.booster_names THEN art.model_cols ELSE NoNames

\* a column of a frame: its name, whether its value came from the raw dict or
\* is a 0.0 put in, whether the label encoder and the scaler went over it
Col(name, src) == [name |-> name, src |-> src, encoded |-> FALSE, scaled |-> FALSE]

Names(df) == [i \in DOMAIN df |-> df[i].name]

\* df[names]: the columns of df picked and ordered by names
Select(df, names) ==
  [i \in DOMAIN names |-> CHOOSE c \in Range(df) : c.name = names[i]]

\* df[col] = 0.0 for every col of names that df lacks, appended in order
AddMissing(df, names) ==
  LET missing == FilterSeq(names, {c.name : c \in Range(df)})
  IN df \o [i \in DOMAIN missing |-> Col(missing[i], "zero")]

Raised(exc) == [raised |-> TRUE, exc |-> exc, df |-> <<>>]

\* the final alignment without its last line, the reorder
align_to_model_unordered(scaled_df, mfn) ==
  IF mfn = NoNames \/ mfn = <<>> THEN scaled_df
  ELSE LET filled == AddMissing(scaled_df, mfn)
           extra_cols == {c \in Range(filled) : c.name \notin Range(mfn)}
       IN FilterSeq(filled, extra_cols)

\* the final alignment (lines 305-321), made only if MODEL_FEATURE_NAMES is
\* neither None nor empty: add what is missing as 0.0, drop what the model
\* was not trained on, reorder
align_to_model(scaled_df, mfn) ==
  IF mfn = NoNames \/ mfn = <<>> THEN scaled_df
  ELSE LET filled == AddMissing(scaled_df, mfn)
           extra_cols == {c \in Range(filled) : c.name \notin Range(mfn)}
       IN Select(FilterSeq(filled, extra_cols), mfn)

\* preprocess_input (app.py lines 254-325; inference_pipeline.py lines
\* 144-204 is the same function): the frame handed to the model, or the
\* exception raised on the way
preprocess_input(raw_names, art, preprocessor_loaded) ==
  IF ~preprocessor_loaded THEN Raised("RuntimeError")
  ELSE
    LET df0 == [i \in DOMAIN raw_names |-> Col(raw_names[i], "raw")]
        \* 1. label-encode the categorical columns that are there
        df1 == [i \in DOMAIN df0 |->
                  IF df0[i].name \in Range(categorical_cols(art))
                  THEN [df0[i] EXCEPT !.encoded = TRUE] ELSE df0[i]]
        \* 2. impute: the imputer takes the frame it was fitted on, no less
        valid_cols == FilterSeq(numerical_cols(art),
                                Range(numerical_cols(art)) \ Range(raw_names))
        \* 3. align to the scaler: df[names], after filling what is missing
        \*    with 0.0; without feature_names_in_ the frame stays as it is
        sn == scaler_feature_names_in(art)
        df3 == IF art.scaler_names THEN Select(AddMissing(df1, sn), sn) ELSE df1
        \* 4. scale
        scaled_df == [i \in DOMAIN df3 |-> [df3[i] EXCEPT !.scaled = TRUE]]
        \* 5. align to the model's feature names, if it has any
        mfn == MODEL_FEATURE_NAMES(art)
    IN IF valid_cols # <<>> /\ valid_cols # numerical_cols(art)
       THEN Raised("ValueError")
       ELSE IF Len(df3) # Len(sn) THEN Raised("ValueError")
       ELSE [raised |-> FALSE, exc |-> "",
             df |-> align_to_model(scaled_df, mfn)]

\* the artifacts the service runs with: fitted on the ten raw columns with
\* the model on eight of them, and fitted with a numerical column the
\* service does not derive
ModelCols ==
  <<"SrcAddr", "DstAddr", "Sport", "Dport", "TotBytes", "Dur", "SrcBytes",
    "DstBytes">>

NoArtifact ==
  [fit_cols |-> <<>>, scaler_names |-> FALSE, model_cols |-> <<>>,
   booster_names |-> FALSE]

Artifacts ==
  {[fit_cols |-> RawNames, scaler_names |-> TRUE,
    model_cols |-> ModelCols, booster_names |-> TRUE],
   [fit_cols |-> RawNames \o <<"Mean">>, scaler_names |-> TRUE,
    model_cols |-> ModelCols, booster_names |-> TRUE]}

VARIABLES
  flow_state,     \* (src_ip, device_id) -> start_time, last_time, counts
  stime,          \* the service's clock, time.time()
  model,          \* the XGBClassifier is loaded (not None)
  preprocessor,   \* the preprocessor is loaded (not None)
  artifact,       \* what was loaded
  request,        \* the request analyze_vitals was last called with
  response,       \* its response
  raw_feats,      \* the raw_features it derived
  model_input,    \* the frame it handed to model.predict
  model_calls,    \* calls of model.predict / predict_proba since the start
  reqs,           \* requests and calls handled since the start
  events,         \* per flow key: what the requests so far amount to
  pipeline_model,         \* inference_pipeline.model is loaded
  pipeline_preprocessor,  \* inference_pipeline.preprocessor is loaded
  pipeline_result \* what predict_from_raw_features last gave

serviceVars ==
  <<flow_state, stime, model, preprocessor, artifact, request, response,
    raw_feats, model_input, model_calls, reqs, events, pipeline_model,
    pipeline_preprocessor, pipeline_result>>

\* requests the service handles in one run
MaxReqs == 3

Clients == {[host |-> "127.0.0.1", port |-> 50000],
            [host |-> "10.0.0.5", port |-> 50001]}

FlowKeys == {<<"127.0.0.1", "d1">>, <<"127.0.0.1", "d2">>, <<"10.0.0.5", "d1">>}

\* the network_metadata member of a request body: none, or what the bridge
\* builds for the third 2-byte message of a device, 1 s after its first
NoMetadata == [src_ip |-> "", flow_pkt_count |-> 0]

BridgeMetadata ==
  build_network_metadata(
    [first_seen |-> 0, last_seen |-> TicksPerSec, pkt_count |-> 3, byte_count |-> 6],
    topic_ingress \o <<"d1">>, 2, TicksPerSec)

\* the OximeterPayload of a request: pydantic keeps the declared fields of
\* the body and drops the others (lines 177-184); spo2 is held in tenths of
\* a percent
OximeterPayload(body) ==
  [device_id |-> body.device_id, seq |-> body.seq, spo2 |-> body.spo2,
   pulse |-> body.pulse, status |-> body.status]

NoRequest == [client |-> [host |-> "", port |-> 0], device_id |-> "", seq |-> 0,
              spo2 |-> 0, pulse |-> 0, status |-> "",
              network_metadata |-> NoMetadata]

\* the reading of a device at rest: spo2 98.0 %, pulse 72, status ok
RestingReading == [spo2 |-> 980, pulse |-> 72, status |-> "ok"]

NoResponse == [status_code |-> 0, prediction |-> "", confidence |-> 0]

NoFeatures ==
  [SrcAddr |-> "", DstAddr |-> "", Sport |-> "", Dport |-> "", TotPkts |-> 0,
   TotBytes |-> 0, Dur |-> 0, Rate |-> ZeroRate, SrcBytes |-> 0, DstBytes |-> 0]

\* the pauses between two requests: none, below the floor, 1 s, 6 s
ServiceDeltas == {0, 1, TicksPerSec, 6 * TicksPerSec}

\* what the classifier may answer: the class, and the probability of class 1
\* in percent
ModelOutputs == {[predicted |-> 0, prob |-> 10], [predicted |-> 1, prob |-> 87]}

\* preprocess_input(raw_feats) of analyze_vitals: raw_feats has the keys
\* RawNames whatever the request, so the result is tabled once
processed_input ==
  [a \in Artifacts \cup {NoArtifact} |-> preprocess_input(RawNames, a, TRUE)]

\* analyze_vitals without its first test
analyze_vitals_unguarded(fs, model_ok, pre_ok, art, req, current_time, created_at, y) ==
  LET payload == OximeterPayload(req)
      gnf == get_network_features(fs, req.client, payload.device_id,
                                  current_time, created_at)
      pre == IF pre_ok THEN processed_input[art]
             ELSE preprocess_input(RawNames, art, pre_ok)
  IN IF pre.raised \/ ~model_ok
     THEN [flow_state |-> gnf.flow_state, raw_feats |-> gnf.raw_features,
           model_input |-> <<>>, model_calls |-> 0,
           response |-> [status_code |-> 500, prediction |-> "", confidence |-> 0]]
     ELSE [flow_state |-> gnf.flow_state, raw_feats |-> gnf.raw_features,
           model_input |-> pre.df, model_calls |-> 2,
           response |-> [status_code |-> 200,
                         prediction |-> IF y.predicted = 1 THEN "ATTACK" ELSE "NORMAL",
                         confidence |-> y.prob]]

\* analyze_vitals: 503 while the model or the preprocessor is missing;
\* otherwise features, preprocessing, the two model calls and the response,
\* or 500 when any of them raises
analyze_vitals(fs, model_ok, pre_ok, art, req, current_time, created_at, y) ==
  IF ~model_ok \/ ~pre_ok
  THEN [flow_state |-> fs, raw_feats |-> NoFeatures, model_input |-> <<>>,
        model_calls |-> 0,
        response |-> [status_code |-> 503, prediction |-> "", confidence |-> 0]]
  ELSE
    LET payload == OximeterPayload(req)
        gnf == get_network_features(fs, req.client, payload.device_id,
                                    current_time, created_at)
        pre == IF pre_ok THEN processed_input[art]
             ELSE preprocess_input(RawNames, art, pre_ok)
    IN IF pre.raised
       THEN [flow_state |-> gnf.flow_state, raw_feats |-> gnf.raw_features,
             model_input |-> <<>>, model_calls |-> 0,
             response |-> [status_code |-> 500, prediction |-> "", confidence |-> 0]]
       ELSE [flow_state |-> gnf.flow_state, raw_feats |-> gnf.raw_features,
             model_input |-> pre.df, model_calls |-> 2,
             response |-> [status_code |-> 200,
                           prediction |-> IF y.predicted = 1 THEN "ATTACK" ELSE "NORMAL",
                           confidence |-> y.prob]]

NoResult == [raised |-> FALSE, exc |-> "", y_pred |-> -1, prob_attack |-> -1]

\* inference_pipeline.predict_from_raw_features (lines 207-222) on a raw
\* feature dict with the keys RawNames
predict_from_raw_features(model_ok, pre_ok, art, y) ==
  IF ~model_ok
  THEN [result |-> [raised |-> TRUE, exc |-> "RuntimeError: Model is not loaded",
                    y_pred |-> -1, prob_attack |-> -1],
        model_calls |-> 0]
  ELSE LET X == IF pre_ok THEN processed_input[art]
                ELSE preprocess_input(RawNames, art, pre_ok)
       IN IF X.raised
          THEN [result |-> [raised |-> TRUE, exc |-> X.exc,
                            y_pred |-> -1, prob_attack |-> -1],
                model_calls |-> 0]
          ELSE [result |-> [raised |-> FALSE, exc |-> "",
                            y_pred |-> y.predicted, prob_attack |-> y.prob],
                model_calls |-> 2]

\* the load at import (app.py lines 151-173, inference_pipeline.py lines
\* 123-141): both artifacts, or None for both
ServiceInit ==
  /\ flow_state = <<>>
  /\ stime = 0
  /\ \/ artifact \in Artifacts /\ model = TRUE /\ preprocessor = TRUE
     \/ artifact = NoArtifact /\ model = FALSE /\ preprocessor = FALSE
  /\ request = NoRequest
  /\ response = NoResponse
  /\ raw_feats = NoFeatures
  /\ model_input = <<>>
  /\ model_calls = 0
  /\ reqs = 0
  /\ events = <<>>
  /\ pipeline_model = model
  /\ pipeline_preprocessor = preprocessor
  /\ pipeline_result = NoResult

\* what the requests for a key amount to after one more at current_time:
\* their number, whether each came within the idle timeout of the one
\* before, the time of the last, and the numbers of the first and the last
NextEvents(ev, key, current_time, n) ==
  LET e == IF key \in DOMAIN ev
           THEN [ev[key] EXCEPT
                   !.n = @ + 1,
                   !.close = @ /\ current_time - ev[key].last_time <= IdleTimeout,
                   !.gap = current_time - ev[key].last_time,
                   !.last_time = current_time,
                   !.last_req = n]
           ELSE [n |-> 1, close |-> TRUE, gap |-> 0, last_time |-> current_time,
                 first_req |-> n, last_req |-> n]
  IN [k \in DOMAIN ev \cup {key} |-> IF k = key THEN e ELSE ev[k]]

\* POST /analyze_vitals
AnalyzeVitals ==
  /\ request = NoRequest /\ reqs < MaxReqs
  /\ \E key \in FlowKeys, md \in {NoMetadata, BridgeMetadata},
        d \in ServiceDeltas, skew \in {0, 1}, y \in ModelOutputs :
       LET client == CHOOSE c \in Clients : c.host = key[1]
           req == [client |-> client, device_id |-> key[2], seq |-> reqs + 1,
                   spo2 |-> RestingReading.spo2, pulse |-> RestingReading.pulse,
                   status |-> RestingReading.status,
                   network_metadata |-> md]
           current_time == stime + d
           created_at == current_time + skew
           res == analyze_vitals(flow_state, model, preprocessor, artifact, req,
                                 current_time, created_at, y)
       IN /\ skew = 1 => (model /\ key \notin DOMAIN flow_state)
          /\ request' = req
          /\ stime' = created_at
          /\ flow_state' = res.flow_state
          /\ raw_feats' = res.raw_feats
          /\ model_input' = res.model_input
          /\ model_calls' = model_calls + res.model_calls
          /\ response' = res.response
          /\ reqs' = reqs + 1
          /\ events' = IF model /\ preprocessor
                        THEN NextEvents(events, key, current_time, reqs + 1)
                        ELSE events
          /\ UNCHANGED pipeline_result
  /\ UNCHANGED <<model, preprocessor, artifact, pipeline_model,
                 pipeline_preprocessor>>

\* a call of inference_pipeline.predict_from_raw_features with a raw
\* feature dict of the service's shape
PredictFromRawFeatures ==
  /\ request = NoRequest /\ pipeline_result = NoResult /\ reqs < MaxReqs
  /\ \E y \in ModelOutputs :
       LET res == predict_from_raw_features(pipeline_model, pipeline_preprocessor,
                                            artifact, y)
       IN /\ pipeline_result' = res.result
          /\ model_calls' = model_calls + res.model_calls
  /\ reqs' = reqs + 1
  /\ UNCHANGED <<flow_state, stime, model, preprocessor, artifact, request,
                 response, raw_feats, model_input, events, pipeline_model,
                 pipeline_preprocessor>>

\* the call returns or its exception is seen
PredictReturn ==
  /\ pipeline_result # NoResult
  /\ pipeline_result' = NoResult
  /\ UNCHANGED <<flow_state, stime, model, preprocessor, artifact, request,
                 response, raw_feats, model_input, model_calls, reqs, events,
                 pipeline_model, pipeline_preprocessor>>

\* the response is sent; the service waits for the next request
SendResponse ==
  /\ request # NoRequest
  /\ request' = NoRequest
  /\ response' = NoResponse
  /\ raw_feats' = NoFeatures
  /\ model_input' = <<>>
  /\ UNCHANGED <<flow_state, stime, model, preprocessor, artifact, model_calls,
                 reqs, events, pipeline_model, pipeline_preprocessor,
                 pipeline_result>>

\* the device id a payload carries, if the payload decodes to a JSON object
\* that has one; and the data messages each device id came with so far, one
\* more for the id this payload carries
Carried(payload) ==
  LET parsed == json_loads(decode(payload))
  IN IF parsed.ok /\ parsed.isdict /\ HasKey(parsed.items, "device_id")
     THEN DictGet(parsed.items, "device_id", Str("")).s
     ELSE ""

NextCounted(c, payload) ==
  LET d == Carried(payload)
  IN IF d \in DOMAIN c
     THEN [c EXCEPT ![d] = [n |-> @.n + 1, bytes |-> @.bytes + Len(payload)]]
     ELSE c

BridgeInit ==
  /\ device_stats = <<>>
  /\ counted = [d \in DeviceIds |-> [n |-> 0, bytes |-> 0]]
  /\ now = 0
  /\ handled = 0
  /\ running = TRUE
  /\ msg = NoMsg
  /\ reply = NoReply
  /\ posts = <<>>
  /\ published = <<>>
  /\ outcome = "none"

\* on_message for a topic under .../status
OnStatusMessage ==
  /\ running /\ outcome = "none" /\ handled < MaxMsgs
  /\ \E topic \in Topics, payload \in Payloads, d \in Deltas :
       /\ endswith_status(topic)
       /\ now' = now + d
       /\ msg' = [topic |-> topic, payload |-> payload]
       /\ published' = mirror_status(topic, payload)
       /\ posts' = <<>>
       /\ reply' = NoReply
       /\ outcome' = "mirrored"
       /\ handled' = handled + 1
       /\ UNCHANGED <<device_stats, running, counted>>

\* on_message for any other topic
OnDataMessage ==
  /\ running /\ outcome = "none" /\ handled < MaxMsgs
  /\ \E topic \in Topics, payload \in Payloads, d \in Deltas, r \in Replies :
       /\ ~endswith_status(topic)
       /\ LET res == republish_data(device_stats, topic, payload, now + d, r)
          IN /\ now' = now + d
             /\ msg' = [topic |-> topic, payload |-> payload]
             /\ device_stats' = res.stats
             /\ posts' = res.posts
             /\ reply' = res.reply
             /\ published' = res.published
             /\ outcome' = res.outcome
             /\ running' = (res.outcome # "raised")
             /\ counted' = NextCounted(counted, payload)
             /\ handled' = handled + 1

\* on_message returns to loop_forever, which waits for the next message
OnMessageReturn ==
  /\ running /\ outcome # "none"
  /\ msg' = NoMsg
  /\ reply' = NoReply
  /\ posts' = <<>>
  /\ published' = <<>>
  /\ outcome' = "none"
  /\ UNCHANGED <<device_stats, now, handled, running, counted>>

\* ---- preprocess_input on its own, over every raw feature map

\* most columns of a raw map, of the fitted frame, of the model
MaxCols == 2

ColNames == {"SrcAddr", "Rate", "Foo"}

\* the sequences of at most MaxCols different names
ColSeqs ==
  {q \in SeqsUpTo(ColNames, MaxCols) :
     \A i, j \in DOMAIN q : i # j => q[i] # q[j]}

VARIABLES
  align_raw,      \* the keys of the raw feature map, in dict order
  align_art,      \* the artifact preprocess_input runs with
  align_out       \* what preprocess_input gave

alignVars == <<align_raw, align_art, align_out>>

NotRun == [raised |-> FALSE, exc |-> "not run", df |-> <<>>]

AlignIdle ==
  /\ align_raw = <<>>
  /\ align_art = NoArtifact
  /\ align_out = NotRun

AlignInit ==
  /\ align_raw \in ColSeqs
  /\ align_art \in [fit_cols : ColSeqs, scaler_names : BOOLEAN,
                    model_cols : ColSeqs, booster_names : BOOLEAN]
  /\ align_out = NotRun

\* preprocess_input(raw_features) with the preprocessor loaded
PreprocessInput ==
  /\ align_out = NotRun
  /\ align_out' = preprocess_input(align_raw, align_art, TRUE)
  /\ UNCHANGED <<align_raw, align_art>>

\* ---- the vital-sign rules and the fusion, over every reading

\* the readings a request may carry: spo2 in tenths of a percent around 85.0
\* and 90.0, pulse around 130 and 150, and the three status words
Spo2Values == {849, 850, 899, 900, 980}

PulseValues == {72, 130, 131, 150, 151}

StatusValues == {"ok", "alert", "error"}

Readings == [spo2 : Spo2Values, pulse : PulseValues, status : StatusValues]

VARIABLES
  vitals,         \* the AnomalyAssessment of the request's reading
  classified      \* what the classifier answered to the request

vitalsVars == <<vitals, classified>>

NoAssessment == [is_anomalous |-> FALSE, level |-> "", reasons |-> <<>>]

NoVerdict == [predicted |-> -1, prob |-> -1]

VitalsIdle == vitals = NoAssessment /\ classified = NoVerdict

\* rules that fire from 90.0 % and from 130 beats on
assess_inclusive(v) ==
  LET reasons ==
        (IF v.spo2 <= 900 THEN <<"low oxygen saturation">> ELSE <<>>)
        \o (IF v.pulse >= 130 THEN <<"tachycardia">> ELSE <<>>)
        \o (IF v.status # "ok" THEN <<"abnormal device status">> ELSE <<>>)
      level ==
        IF v.spo2 < 850 \/ v.pulse > 150 \/ v.status = "error" THEN "high"
        ELSE IF reasons # <<>> THEN "medium"
        ELSE "none"
  IN [is_anomalous |-> reasons # <<>>, level |-> level, reasons |-> reasons]

\* VitalsRuleEngine.assess: the reasons that fire, in the order of the
\* rules, the level, and whether any reason fired
assess(v) ==
  LET reasons ==
        (IF v.spo2 < 900 THEN <<"low oxygen saturation">> ELSE <<>>)
        \o (IF v.pulse > 130 THEN <<"tachycardia">> ELSE <<>>)
        \o (IF v.status # "ok" THEN <<"abnormal device status">> ELSE <<>>)
      level ==
        IF v.spo2 < 850 \/ v.pulse > 150 \/ v.status = "error" THEN "high"
        ELSE IF reasons # <<>> THEN "medium"
        ELSE "none"
  IN [is_anomalous |-> reasons # <<>>, level |-> level, reasons |-> reasons]

\* POST /analyze_vitals from the local client for device d1, with each
\* reading, the requests following one another without a pause
AnalyzeReading ==
  /\ request = NoRequest /\ reqs < MaxReqs
  /\ \E v \in Readings, y \in ModelOutputs :
       LET client == CHOOSE c \in Clients : c.host = "127.0.0.1"
           req == [client |-> client, device_id |-> "d1", seq |-> reqs + 1,
                   spo2 |-> v.spo2, pulse |-> v.pulse, status |-> v.status,
                   network_metadata |-> NoMetadata]
           res == analyze_vitals(flow_state, model, preprocessor, artifact, req,
                                 stime, stime, y)
       IN /\ request' = req
          /\ flow_state' = res.flow_state
          /\ raw_feats' = res.raw_feats
          /\ model_input' = res.model_input
          /\ model_calls' = model_calls + res.model_calls
          /\ response' = res.response
          /\ reqs' = reqs + 1
          /\ classified' = IF res.model_calls > 0 THEN y ELSE NoVerdict
  /\ UNCHANGED <<stime, model, preprocessor, artifact, events, pipeline_model,
                 pipeline_preprocessor, pipeline_result, vitals>>

\* the rule engine assesses the reading of the request
AssessVitals ==
  /\ request # NoRequest /\ vitals = NoAssessment
  /\ vitals' = assess(OximeterPayload(request))
  /\ UNCHANGED <<serviceVars, classified>>

\* the response is sent, and the assessment goes with the request
SendAssessed ==
  /\ SendResponse
  /\ vitals' = NoAssessment
  /\ classified' = NoVerdict

\* ---- requests that arrive while another is handled

\* requests in flight at once
MaxConns == 3

ConcKeys == {<<"127.0.0.1", "d1">>, <<"127.0.0.1", "d2">>}

VARIABLES
  tasks           \* per request: where its handler is, its flow key, and the
                  \* entry it works on

concVars == <<tasks>>

NoStats == [start_time |-> 0, last_time |-> 0, byte_count |-> 0, pkt_count |-> 0]

NoTask == [pc |-> "idle", key |-> <<>>, stats |-> NoStats]

ConcIdle == tasks = [i \in 1..MaxConns |-> NoTask]

\* the handler of request i is between its entry and its return
Running(t, i) == t[i].pc \in {"entered", "update", "predict"}

\* analyze_vitals is a coroutine without an await, and uvicorn runs one
\* event loop: a handler is entered only when none is between its entry and
\* its return
may_start(t) == \A j \in DOMAIN t : ~Running(t, j)

\* a request reaches the server
Arrive(i) ==
  /\ tasks[i].pc = "idle"
  /\ \E key \in ConcKeys :
       tasks' = [tasks EXCEPT ![i] = [pc |-> "pending", key |-> key,
                                      stats |-> NoStats]]
  /\ UNCHANGED serviceVars

\* the event loop enters the handler: the test of the model passes
Enter(i) ==
  /\ tasks[i].pc = "pending"
  /\ may_start(tasks)
  /\ model /\ preprocessor
  /\ tasks' = [tasks EXCEPT ![i].pc = "entered"]
  /\ UNCHANGED serviceVars

\* stats = flow_state[flow_key]: the entry, made if the key has none, and
\* what the handler reads of it
Lookup(i) ==
  /\ tasks[i].pc = "entered"
  /\ LET key == tasks[i].key
         stats == flow_state_get(flow_state, key, stime)
     IN /\ flow_state' = [k \in DOMAIN flow_state \cup {key} |->
                            IF k = key THEN stats ELSE flow_state[k]]
        /\ tasks' = [tasks EXCEPT ![i].pc = "update", ![i].stats = stats]
  /\ UNCHANGED <<stime, model, preprocessor, artifact, request, response,
                 raw_feats, model_input, model_calls, reqs, events,
                 pipeline_model, pipeline_preprocessor, pipeline_result>>

\* the handler writes last_time and the two counts, each one more than read
Update(i) ==
  /\ tasks[i].pc = "update"
  /\ flow_state' = [flow_state EXCEPT
                      ![tasks[i].key] = update_flow(tasks[i].stats, stime)]
  /\ tasks' = [tasks EXCEPT ![i].pc = "predict"]
  /\ UNCHANGED <<stime, model, preprocessor, artifact, request, response,
                 raw_feats, model_input, model_calls, reqs, events,
                 pipeline_model, pipeline_preprocessor, pipeline_result>>

\* preprocessing, the two model calls and the return of the response
Respond(i) ==
  /\ tasks[i].pc = "predict"
  /\ model_calls' = model_calls + 2
  /\ tasks' = [tasks EXCEPT ![i].pc = "done"]
  /\ UNCHANGED <<flow_state, stime, model, preprocessor, artifact, request,
                 response, raw_feats, model_input, reqs, events,
                 pipeline_model, pipeline_preprocessor, pipeline_result>>

vars == <<bridgeVars, serviceVars, alignVars, vitalsVars, concVars>>

\* the bridge alone: api_url may name any endpoint, so the replies are
\* drawn from Replies and the service of this module stays as it starts
Init == BridgeInit /\ ServiceInit /\ ~model /\ AlignIdle /\ VitalsIdle /\ ConcIdle

InitService == BridgeInit /\ ServiceInit /\ AlignIdle /\ VitalsIdle /\ ConcIdle

InitAlign == BridgeInit /\ ServiceInit /\ ~model /\ AlignInit /\ VitalsIdle /\ ConcIdle

Next ==
  \/ OnStatusMessage /\ UNCHANGED <<serviceVars, alignVars, vitalsVars, concVars>>
  \/ OnDataMessage /\ UNCHANGED <<serviceVars, alignVars, vitalsVars, concVars>>
  \/ OnMessageReturn /\ UNCHANGED <<serviceVars, alignVars, vitalsVars, concVars>>

Spec == Init /\ [][Next]_vars

\* the scoring service, with the bridge idle
NextService ==
  \/ AnalyzeVitals /\ UNCHANGED <<bridgeVars, alignVars, vitalsVars, concVars>>
  \/ SendResponse /\ UNCHANGED <<bridgeVars, alignVars, vitalsVars, concVars>>
  \/ PredictFromRawFeatures /\ UNCHANGED <<bridgeVars, alignVars, vitalsVars, concVars>>
  \/ PredictReturn /\ UNCHANGED <<bridgeVars, alignVars, vitalsVars, concVars>>

SpecService == InitService /\ [][NextService]_vars

\* preprocess_input applied to each raw map under each artifact
NextAlign == PreprocessInput /\ UNCHANGED <<bridgeVars, serviceVars, vitalsVars, concVars>>

SpecAlign == InitAlign /\ [][NextAlign]_vars

\* the loaded service scoring each reading, with the rule engine beside it
InitVitals == InitService /\ model

NextVitals ==
  \/ AnalyzeReading /\ UNCHANGED <<bridgeVars, alignVars, concVars>>
  \/ AssessVitals /\ UNCHANGED <<bridgeVars, alignVars, concVars>>
  \/ SendAssessed /\ UNCHANGED <<bridgeVars, alignVars, concVars>>

SpecVitals == InitVitals /\ [][NextVitals]_vars

\* the loaded service with up to MaxConns requests in flight
InitConcurrent == InitService /\ model

NextConcurrent ==
  \E i \in 1..MaxConns :
    \/ Arrive(i) /\ UNCHANGED <<bridgeVars, alignVars, vitalsVars>>
    \/ Enter(i) /\ UNCHANGED <<bridgeVars, alignVars, vitalsVars>>
    \/ Lookup(i) /\ UNCHANGED <<bridgeVars, alignVars, vitalsVars>>
    \/ Update(i) /\ UNCHANGED <<bridgeVars, alignVars, vitalsVars>>
    \/ Respond(i) /\ UNCHANGED <<bridgeVars, alignVars, vitalsVars>>

SpecConcurrent == InitConcurrent /\ [][NextConcurrent]_vars

\* ------------------------------------------------------- ForwardingGate

IsData == outcome # "none" /\ ~endswith_status(msg.topic)

\* the scoring call was made and failed: an exception (timeout, transport),
\* a status other than 200, or a body that does not decode
CallFailed ==
  /\ reply # NoReply
  /\ \/ reply.exc \in {"timeout", "connection"}
     \/ reply.status_code # 200
     \/ reply.body = "undecodable"

\* C1: a data message whose scoring call times out, fails at the transport,
\* returns a status other than 200 or a body that does not decode is blocked:
\* nothing is published for it, and the call was made once, not again.
C1_FailClosed ==
  (IsData /\ CallFailed) =>
     /\ published = <<>>
     /\ Len(posts) = 1
     /\ outcome = "blocked"

\* a call answered 503 with a body that says NORMAL was blocked
C1_Witness ==
  /\ IsData
  /\ reply.exc = "none" /\ reply.status_code = 503
  /\ reply.body = "dict" /\ reply.prediction = "NORMAL"
  /\ outcome = "blocked"

CallGaveLabel ==
  reply.exc = "none" /\ reply.status_code = 200 /\ reply.body = "dict"

\* C2: a data message is published downstream only if its own scoring call
\* succeeded with the label NORMAL; a successful call with the label ATTACK,
\* no label or any other label ends blocked, with nothing published.
C2_OnlyNormalForwarded ==
  IsData =>
    /\ published # <<>> =>
         /\ CallGaveLabel /\ reply.prediction = "NORMAL"
         /\ Len(posts) = 1
    /\ (CallGaveLabel /\ reply.prediction # "NORMAL") =>
         (outcome = "blocked" /\ published = <<>>)

\* a successful call without a label was blocked
C2_Witness ==
  /\ IsData /\ CallGaveLabel
  /\ reply.prediction = "<absent>"
  /\ outcome = "blocked"

\* C3: a message on a status topic is mirrored without a scoring call and
\* without touching a per-device counter, its payload byte for byte.
C3_StatusMirroredVerbatim ==
  [][(outcome' = "mirrored") =>
       /\ endswith_status(msg'.topic)
       /\ posts' = <<>>
       /\ device_stats' = device_stats
       /\ Len(published') = 1
       /\ published'[1].payload = msg'.payload]_vars

\* a status payload that is no JSON was mirrored as it came
C3_Witness ==
  /\ outcome = "mirrored"
  /\ msg.payload = <<Dev("d1"), JUNK>>
  /\ published[1].payload = <<Dev("d1"), JUNK>>

\* the members of a body other than the verdict's
VerdictKeys == {"prediction", "confidence"}

WithoutVerdict(items) ==
  FilterSeq(items, {it \in Range(items) : it.k \in VerdictKeys})

\* C4: a forwarded body is the inbound body, changed at most by added
\* verdict metadata: no other member is added, removed or altered.
C4_ForwardsOriginalBody ==
  (IsData /\ outcome = "forwarded") =>
     WithoutVerdict(json_loads(published[1].payload).items) =
       json_loads(decode(msg.payload)).items

\* the payload is no JSON
NotJson(payload) == \E i \in DOMAIN payload : payload[i].t = "junk"

\* C5: a data message whose payload does not parse is dropped: it is not
\* sent to the scoring pipeline and not published.
C5_MalformedDropped ==
  (IsData /\ NotJson(msg.payload)) =>
     /\ posts = <<>>
     /\ published = <<>>
     /\ outcome = "dropped"

\* a payload with a readable member and then junk was dropped
C5_Witness ==
  /\ IsData
  /\ msg.payload = <<Dev("d1"), JUNK>>
  /\ outcome = "dropped"

\* ------------------------------------------------------ FlowStatsTracker

\* the flow key of the request being answered
ReqKey == <<request.client.host, request.device_id>>

\* the request being answered went through get_network_features
Tracked == request # NoRequest /\ response.status_code \in {200, 500}

\* C6: an event that comes more than the idle timeout after the key's
\* previous event restarts the key: the snapshot has pkt_count 1 and
\* byte_count the size of that one event.
C6_IdleExpiryResets ==
  (Tracked /\ events[ReqKey].gap > IdleTimeout) =>
     /\ raw_feats.TotPkts = 1
     /\ raw_feats.TotBytes = pkt_size

\* C7: for a key whose N events each came within the idle timeout of the
\* one before, the snapshot after the N-th has pkt_count N and rate
\* N / duration, whatever other keys received in between.
C7_CountAndRate ==
  (Tracked /\ events[ReqKey].close) =>
     /\ raw_feats.TotPkts = events[ReqKey].n
     /\ raw_feats.Rate = Quot(events[ReqKey].n, raw_feats.Dur)

\* the second event of a key, 1 s after its first, with an event of another
\* key of the same device id between the two
C7_Witness ==
  /\ Tracked /\ events[ReqKey].close
  /\ events[ReqKey].n = 2
  /\ raw_feats.TotPkts = 2
  /\ raw_feats.Dur = TicksPerSec
  /\ \E k \in DOMAIN events :
       /\ k # ReqKey /\ k[2] = ReqKey[2]
       /\ events[ReqKey].first_req < events[k].last_req
       /\ events[k].last_req < events[ReqKey].last_req

\* C9: a request with network_metadata gets its addresses, ports, counters
\* and duration from the metadata, not from the service's flow statistics.
C9_MetadataAuthoritative ==
  (Tracked /\ request.network_metadata # NoMetadata) =>
     /\ raw_feats.SrcAddr = request.network_metadata.src_ip
     /\ raw_feats.DstAddr = request.network_metadata.dst_ip
     /\ raw_feats.Sport = ToString(request.network_metadata.src_port)
     /\ raw_feats.Dport = ToString(request.network_metadata.dst_port)
     /\ raw_feats.TotPkts = request.network_metadata.flow_pkt_count
     /\ raw_feats.TotBytes = request.network_metadata.flow_byte_count
     /\ raw_feats.Dur = Max(request.network_metadata.flow_duration, Epsilon)

\* C10: while the classifier or its preprocessor is not loaded, it stays
\* so, no entry point calls the model, analyze_vitals answers 503 without a
\* prediction and predict_from_raw_features raises.
C10_UnavailableStays ==
  [][/\ ~(model /\ preprocessor) =>
          /\ ~(model' /\ preprocessor')
          /\ request' # NoRequest =>
               (response'.status_code = 503 /\ response'.prediction = "")
     /\ (~(model /\ preprocessor) /\ ~(pipeline_model /\ pipeline_preprocessor)) =>
          model_calls' = model_calls
     /\ ~(pipeline_model /\ pipeline_preprocessor) =>
          /\ ~(pipeline_model' /\ pipeline_preprocessor')
          /\ pipeline_result' # NoResult =>
               (pipeline_result'.raised /\ pipeline_result'.y_pred = -1)]_vars

\* a service that did not load answers 503 to the third request or call
C10_Witness ==
  /\ ~model /\ ~preprocessor
  /\ reqs = 3
  /\ response.status_code = 503
  /\ model_calls = 0

\* ----------------------------------------------------- schema alignment

\* preprocess_input has handed a frame on
Handed == align_out # NotRun /\ ~align_out.raised

\* the frame has exactly the columns names, in that order, and a column the
\* raw map lacks holds a 0.0 put in
AlignedTo(names) ==
  /\ Names(align_out.df) = names
  /\ \A i \in DOMAIN align_out.df :
       align_out.df[i].name \notin Range(align_raw) => align_out.df[i].src = "zero"

\* C8 as stated: whenever a frame is handed to the classifier it has exactly
\* the classifier's expected columns in the classifier's order, missing ones
\* filled with 0.0 and others dropped, also when the classifier reports no
\* feature names.
C8_AlwaysAligned == Handed => AlignedTo(align_art.model_cols)

\* C8 as amended: the frame is aligned to the classifier's columns whenever
\* the booster reports a non-empty list of feature names; a 0.0 put in for a
\* column the scaler was fitted on is put in before scaling. When the
\* booster reports none, the frame keeps the scaler's columns (the raw
\* map's, where the scaler has no feature names).
C8_AlignedWhenNamed ==
  Handed =>
    IF align_art.booster_names /\ align_art.model_cols # <<>>
    THEN /\ AlignedTo(align_art.model_cols)
         /\ \A i \in DOMAIN align_out.df :
              align_out.df[i].src = "zero" =>
                (align_out.df[i].scaled <=>
                   (align_art.scaler_names
                      /\ align_out.df[i].name \in Range(align_art.fit_cols)))
    ELSE Names(align_out.df) =
           IF align_art.scaler_names THEN scaler_feature_names_in(align_art)
           ELSE align_raw

\* a raw map with the unexpected Foo and without the expected Rate came out
\* without Foo and with Rate as 0.0
C8_Witness ==
  /\ Handed
  /\ align_raw = <<"Foo", "SrcAddr">>
  /\ align_art.booster_names
  /\ align_art.model_cols = <<"SrcAddr", "Rate">>
  /\ Names(align_out.df) = <<"SrcAddr", "Rate">>
  /\ align_out.df[2].src = "zero"
  /\ align_out.df[1].src = "raw"

\* ------------------------------------------------- vital signs and fusion

\* the request was scored and its reading assessed
Fused == response.status_code = 200 /\ vitals # NoAssessment

\* the rule layer calls the reading an attack
vitals_attack == vitals.is_anomalous /\ vitals.level = "high"

\* C11: the label of a scored request is ATTACK exactly when the classifier
\* predicts class 1 or the reading is anomalous at level high, and NORMAL
\* otherwise.
C11_FusedLabel ==
  Fused =>
    response.prediction =
      IF classified.predicted = 1 \/ vitals_attack THEN "ATTACK" ELSE "NORMAL"

\* C12: the confidence of a scored request is the attack probability when
\* the classifier predicts class 1, else 0.9 when the reading is anomalous
\* at level high, else 1 minus the attack probability (in percent here).
C12_FusedConfidence ==
  Fused =>
    response.confidence =
      IF classified.predicted = 1 THEN classified.prob
      ELSE IF vitals_attack THEN 90
      ELSE 100 - classified.prob

\* C13: the reasons of an assessment are those of the rules spo2 < 90,
\* pulse > 130 and status other than ok that hold of the reading, each
\* once; the level is high if spo2 < 85, pulse > 150 or status is error,
\* else medium if a reason fired, else none; is_anomalous says that a
\* reason fired.
C13_VitalsRules ==
  vitals # NoAssessment =>
    LET fired == Range(vitals.reasons) IN
    /\ fired \subseteq
         {"low oxygen saturation", "tachycardia", "abnormal device status"}
    /\ Len(vitals.reasons) = Cardinality(fired)
    /\ "low oxygen saturation" \in fired <=> request.spo2 < 900
    /\ "tachycardia" \in fired <=> request.pulse > 130
    /\ "abnormal device status" \in fired <=> request.status # "ok"
    /\ vitals.level =
         IF request.spo2 < 850 \/ request.pulse > 150 \/ request.status = "error"
         THEN "high"
         ELSE IF fired # {} THEN "medium"
         ELSE "none"
    /\ vitals.is_anomalous <=> fired # {}

\* spo2 89.9 with pulse 130 and status ok: the one reason of low oxygen,
\* at level medium
C13_Witness ==
  /\ request.spo2 = 899 /\ request.pulse = 130 /\ request.status = "ok"
  /\ vitals.reasons = <<"low oxygen saturation">>
  /\ vitals.level = "medium"
  /\ vitals.is_anomalous

\* ------------------------------------------------------------ concurrency

\* the requests for key k whose handler has written its counts
Counted(k) ==
  Cardinality({i \in 1..MaxConns :
                 tasks[i].key = k /\ tasks[i].pc \in {"predict", "done"}})

\* no increment of a key is lost
NoLostIncrement ==
  \A k \in DOMAIN flow_state :
    /\ flow_state[k].pkt_count = Counted(k)
    /\ flow_state[k].byte_count = pkt_size * Counted(k)

\* a request cannot be entered, and every handler that keeps it out works
\* on another key
WaitsForOtherKey ==
  \E i \in 1..MaxConns :
    /\ tasks[i].pc = "pending"
    /\ ~may_start(tasks)
    /\ \A j \in 1..MaxConns : Running(tasks, j) => tasks[j].key # tasks[i].key

\* C14: under every interleaving of the requests no increment of a key is
\* lost (pkt_count is the number of its requests, byte_count the sum of
\* their sizes), and a request for a different key never has to wait for
\* the requests of a key.
C14_AtomicPerKey == NoLostIncrement /\ ~WaitsForOtherKey

\* ------------------------------------------------- the bridge, continued

\* the device id D of an inbound topic edge/<gw>/in/<D> or .../in/<D>/status
TopicDevice(topic) == topic[Len(topic_ingress) + 1]

\* C15: a message received on .../in/<D> is, when forwarded, published on
\* plx/reading/<D>, and one received on .../in/<D>/status is mirrored on
\* plx/reading/<D>/status: the outbound device id is that of the inbound
\* topic.
C15_TopicMapping ==
  /\ (outcome = "forwarded" /\ Len(msg.topic) = Len(topic_ingress) + 1) =>
       published[1].topic = unity_prefix \o <<TopicDevice(msg.topic)>>
  /\ (outcome = "mirrored" /\ Len(msg.topic) = Len(topic_ingress) + 2) =>
       published[1].topic = unity_prefix \o <<TopicDevice(msg.topic), "status">>

\* ------------------------------------------- the flow state, continued

\* C16: every key that has recorded an event has last_time >= start_time
\* and pkt_count >= 1, from its first event on.
C16_FlowStateInvariant ==
  \A k \in DOMAIN flow_state :
    /\ flow_state[k].last_time >= flow_state[k].start_time
    /\ flow_state[k].pkt_count >= 1

\* C17: the duration of a snapshot is floored at the epsilon, whether it
\* comes from the tracker (last_time - start_time) or from the request's
\* network metadata (flow_duration), and the rate is the packet count over
\* that duration, so never over zero.
C17_DurationFloored ==
  Tracked =>
    /\ raw_feats.Dur =
         IF request.network_metadata # NoMetadata
         THEN Max(request.network_metadata.flow_duration, Epsilon)
         ELSE Max(flow_state[ReqKey].last_time - flow_state[ReqKey].start_time,
                  Epsilon)
    /\ raw_feats.Dur >= Epsilon /\ Epsilon > 0
    /\ raw_feats.Rate = Quot(raw_feats.TotPkts, raw_feats.Dur)

\* C18: the handling of a message makes at most one scoring call and at
\* most one publish and ends mirrored, forwarded or blocked (a payload
\* dropped as malformed counts as blocked), and the bridge then stands
\* ready for the next message.
C18_OneOutcomePerMessage ==
  /\ Len(posts) <= 1
  /\ Len(published) <= 1
  /\ outcome # "none" =>
       /\ outcome \in {"mirrored", "forwarded", "blocked", "dropped"}
       /\ running

\* the counts the bridge holds for device id d
StatsOf(stats, d) ==
  IF d \in DOMAIN stats
  THEN [n |-> stats[d].pkt_count, bytes |-> stats[d].byte_count]
  ELSE [n |-> 0, bytes |-> 0]

\* the network_metadata member of the body POSTed for the message
PostedMetadata == DictGet(posts[1], "network_metadata", Str("")).o

\* C19: after every message the packet count of a device id is the number
\* of data messages so far whose payload decodes to a JSON object with that
\* device id, and its byte count the sum of their sizes, however each of
\* them ended; the flow_pkt_count and flow_byte_count sent with a scoring
\* call are these counts; a status message and a payload that does not
\* decode leave every counter as it was.
C19_CountersCountAll ==
  [][/\ \A d \in DeviceIds : StatsOf(device_stats', d) = counted'[d]
     /\ (posts' # <<>> /\ Carried(msg'.payload) \in DeviceIds) =>
          /\ PostedMetadata'.flow_pkt_count = counted'[Carried(msg'.payload)].n
          /\ PostedMetadata'.flow_byte_count =
               counted'[Carried(msg'.payload)].bytes
     /\ (msg' # NoMsg /\ (endswith_status(msg'.topic)
                            \/ ~json_loads(decode(msg'.payload)).ok)) =>
          device_stats' = device_stats]_vars

\* the second data message with device id d1 was blocked by a failed
\* scoring call, after a first one of another size, and both are counted
C19_Witness ==
  /\ IsData /\ outcome = "blocked" /\ CallFailed
  /\ Carried(msg.payload) = "d1"
  /\ counted["d1"].n = 2
  /\ device_stats["d1"].pkt_count = 2
  /\ device_stats["d1"].byte_count = counted["d1"].bytes
  /\ device_stats["d1"].byte_count > 2 * Len(msg.payload)
  /\ PostedMetadata.flow_pkt_count = 2

====
